---------------------------- MODULE Spec2Model ----------------------------
(***************************************************************************)
(* Model of start_local_services.py: the local service supervisor.         *)
(*                                                                         *)
(* The supervisor is one Python thread.  Its position is pc; the cleanup   *)
(* frames that are active on top of it (cleanup called by main, or cleanup *)
(* run as the SIGINT/SIGTERM handler, possibly nested) are in stack, and   *)
(* the progress of the innermost frame is in cl.  cleanup always ends in   *)
(* sys.exit(0), i.e. it raises SystemExit, so an outer frame never resumes.*)
(* SystemExit unwinds the Python stack: it ends the process unless it      *)
(* passes through the bare "except:" of check_service, which swallows it.  *)
(*                                                                         *)
(* Environment assumptions: the docker binary is installed (subprocess.run *)
(* does not raise FileNotFoundError) and the log files can be opened.      *)
(* Health endpoints are external: any poll may see any outcome.            *)
(***************************************************************************)
EXTENDS Integers, Sequences, FiniteSets, TLC

VARIABLES
    pc,             \* position of the main thread
    stack,          \* causes of the active cleanup frames, innermost last
    cl,             \* progress of the innermost cleanup frame
    processes,      \* the module-level list `processes`
    alive,          \* OS state of each child: "none", "running", "exited"
    termSent,       \* number of SIGTERMs sent to each child
    killSent,       \* number of SIGKILLs sent to each child
    dockerStops,    \* number of `docker stop` commands issued
    dockerStarts,   \* number of `docker start` commands issued
    scriptExists,   \* STT_LAUNCH.exists()
    psOut,          \* stdout of `docker ps -a --filter name=... --format {{.Names}}`
    waiting,        \* which service wait_for_service is polling
    i,              \* loop variable of wait_for_service
    max_wait,       \* argument of wait_for_service
    polls,          \* results of the check_service calls of the current wait_for_service
    waitRet,        \* return value of the last wait_for_service call
    stt_ok, tts_ok, \* locals of main
    llm_ok,         \* local of main
    midx,           \* position of the monitor loop in `processes`
    exitCode,       \* process exit status, -1 while running
    exitCause,      \* the cleanup frames that were active when the process ended
    sigCount,       \* signals delivered so far
    lastOutcome,    \* outcome of the HTTP GET when the last step was a check_service call
    lastResult,     \* what that call returned
    envPc,          \* position of the module-level environment loader
    fileExists,     \* ENV_FILE.exists()
    file,           \* lines of agents/.env.local
    lineNo,         \* next line of the file
    environ,        \* os.environ
    environ0        \* os.environ before the loader ran

vars == <<pc, stack, cl, processes, alive, termSent, killSent, dockerStops,
          dockerStarts, scriptExists, psOut, waiting, i, max_wait, polls,
          waitRet, stt_ok, tts_ok, llm_ok, midx, exitCode, exitCause,
          sigCount, lastOutcome, lastResult, envPc, fileExists, file, lineNo,
          environ, environ0>>

mainVars == <<pc, stack, cl, processes, alive, termSent, killSent, dockerStops,
              dockerStarts, scriptExists, psOut, waiting, i, max_wait, polls,
              waitRet, stt_ok, tts_ok, llm_ok, midx, exitCode, exitCause,
              sigCount, lastOutcome, lastResult>>

envVars == <<envPc, fileExists, file, lineNo, environ, environ0>>

---------------------------------------------------------------------------
(* Bounds of the model. *)

\* signals delivered in one run
MaxSignals == 2
\* largest max_wait argument tried when wait_for_service is checked alone
MaxWaitArg == 3
\* lines of the environment file
MaxLines == 2

---------------------------------------------------------------------------
(* Strings are sequences of one-character strings. *)

\* Python: sub in s
Contains(sub, s) ==
    \E k \in 0..(Len(s) - Len(sub)) : SubSeq(s, k + 1, k + Len(sub)) = sub

\* Python: s.startswith(p)
StartsWith(s, p) == Len(s) >= Len(p) /\ SubSeq(s, 1, Len(p)) = p

IsSpace(c) == c \in {" ", "\t", "\n"}

RECURSIVE LStrip(_)
LStrip(s) == IF s # <<>> /\ IsSpace(Head(s)) THEN LStrip(Tail(s)) ELSE s

RECURSIVE RStrip(_)
RStrip(s) ==
    IF s # <<>> /\ IsSpace(s[Len(s)]) THEN RStrip(SubSeq(s, 1, Len(s) - 1)) ELSE s

\* Python: s.strip()
Strip(s) == RStrip(LStrip(s))

\* index of the first occurrence of character c in s, 0 when absent
RECURSIVE IndexOf(_, _, _)
IndexOf(c, s, k) ==
    IF k > Len(s) THEN 0 ELSE IF s[k] = c THEN k ELSE IndexOf(c, s, k + 1)

\* Python: s.split('=', 1), for an s that holds '='
SplitFirst(s) ==
    LET k == IndexOf("=", s, 1)
    IN  [key |-> SubSeq(s, 1, k - 1), value |-> SubSeq(s, k + 1, Len(s))]

---------------------------------------------------------------------------
(* Configuration. *)

STT_NAME == <<"S", "T", "T">>
TTS_NAME == <<"T", "T", "S", " ", "(", "L", "o", "g", " ", "S", "t", "r", "e", "a", "m", ")">>

FATTERBOX_CONTAINER == <<"f", "a", "t", "t", "e", "r", "b", "o", "x", "-", "t", "t", "s">>

STT_HEALTH == "http://localhost:8000/docs"
TTS_HEALTH == "http://localhost:8005/docs"
LLM_HEALTH == "http://localhost:11434"

\* max_wait passed by main for STT and for TTS
STT_MAX_WAIT == 30
TTS_MAX_WAIT == 30

Procs == {"stt", "tts"}

\* what `docker ps -a --filter name=fatterbox-tts` can print: nothing, the
\* container itself, or only another container whose name holds the filter
PsOutputs ==
    { <<>>,
      FATTERBOX_CONTAINER \o <<"\n">>,
      FATTERBOX_CONTAINER \o <<"-", "2", "\n">> }

\* the container named FATTERBOX_CONTAINER exists
ContainerExists == psOut = FATTERBOX_CONTAINER \o <<"\n">>

---------------------------------------------------------------------------
(* check_service *)

StatusCodes == {200, 404, 499, 500, 503}

\* what requests.get can do: answer with a status, or raise
Outcomes ==
    [kind : {"response"}, status : StatusCodes]
    \cup [kind : {"refused", "dns", "timeout"}, status : {0}]

\* a signal handler raised SystemExit inside the try block
Interrupted == [kind |-> "systemexit", status |-> 0]

NoOutcome == [kind |-> "none", status |-> 0]

\* a mistaken comparison: status 500 counts as healthy
check_service_le(o) ==
    IF o.kind = "response" THEN o.status <= 500 ELSE FALSE

\* return value of check_service for an outcome of the GET
check_service(o) ==
    IF o.kind = "response" THEN o.status < 500 ELSE FALSE

\* positions of main that are inside the try block of check_service
CheckPcs == {"llm_check", "wait_check", "llm_check2", "mon_check"}

\* a mistaken choice of URL: the test "TT" in name holds for both names
CheckUrlLoose ==
    CASE pc = "llm_check" -> LLM_HEALTH
      [] pc = "llm_check2" -> LLM_HEALTH
      [] pc = "wait_check" -> (IF waiting = "STT" THEN STT_HEALTH ELSE TTS_HEALTH)
      [] pc = "mon_check" ->
            (IF Contains(<<"T", "T">>, processes[midx].name) THEN STT_HEALTH ELSE TTS_HEALTH)
      [] OTHER -> "none"

\* the URL polled at each such position
CheckUrl ==
    CASE pc = "llm_check" -> LLM_HEALTH
      [] pc = "llm_check2" -> LLM_HEALTH
      [] pc = "wait_check" -> (IF waiting = "STT" THEN STT_HEALTH ELSE TTS_HEALTH)
      [] pc = "mon_check" ->
            (IF Contains(STT_NAME, processes[midx].name) THEN STT_HEALTH ELSE TTS_HEALTH)
      [] OTHER -> "none"

---------------------------------------------------------------------------
(* Values of the idle parts of the state. *)

NoFrame == [phase |-> "none", idx |-> 0]

\* a mistaken cleanup that goes straight to the processes
NewFrameNoStop == [phase |-> "loop", idx |-> 1]

\* a cleanup frame that has just been entered
NewFrame == [phase |-> "stop", idx |-> 0]

\* the step is not a return of check_service
NoCheck == lastOutcome' = NoOutcome /\ lastResult' = FALSE

\* the locals of wait_for_service when no call is active
WaitIdle ==
    /\ waiting' = "STT"
    /\ i' = 0
    /\ max_wait' = 0
    /\ polls' = <<>>
    /\ waitRet' = "unset"

TypeOK ==
    /\ pc \in {"import", "llm_check", "stt_start", "stt_spawned", "tts_start",
               "tts_started", "tts_spawned", "wait_loop", "wait_check",
               "wait_sleep", "wait_ret", "llm_check2", "llm_warm", "summary",
               "fail_call", "mon_sleep", "mon_loop", "mon_check", "mon_call",
               "exited"}
    /\ stack \in Seq({"signal", "fail", "monitor"})
    /\ cl.phase \in {"none", "stop", "loop", "wait"}
    /\ alive \in [Procs -> {"none", "running", "exited"}]
    /\ termSent \in [Procs -> Nat]
    /\ killSent \in [Procs -> Nat]
    /\ dockerStops \in Nat
    /\ waiting \in {"STT", "TTS"}
    /\ waitRet \in {"unset", "True", "False"}
    /\ stt_ok \in {"unset", "True", "False"}
    /\ tts_ok \in {"unset", "True", "False"}
    /\ llm_ok \in BOOLEAN
    /\ exitCode \in {-1, 0, 1}
    /\ sigCount \in 0..MaxSignals

---------------------------------------------------------------------------
(* sys.exit and the call of cleanup *)

\* cleanup(): a new frame on top of the current position
CallCleanup(cause) ==
    /\ stack' = Append(stack, cause)
    /\ cl' = NewFrame

\* the interpreter ends with an uncaught SystemExit(code); cause records the
\* cleanup frames it unwound
ProcessExit(code, cause) ==
    /\ pc' = "exited"
    /\ exitCode' = code
    /\ exitCause' = cause
    /\ stack' = <<>>
    /\ cl' = NoFrame

---------------------------------------------------------------------------
(* wait_for_service *)

\* a mistaken call order: the TTS wait comes first
CallWaitTts(name, m) ==
    /\ waiting' = "TTS"
    /\ max_wait' = m
    /\ i' = 0
    /\ polls' = <<>>
    /\ waitRet' = "unset"
    /\ pc' = "wait_loop"

\* main calls wait_for_service(name, url, max_wait=m)
CallWait(name, m) ==
    /\ waiting' = name
    /\ max_wait' = m
    /\ i' = 0
    /\ polls' = <<>>
    /\ waitRet' = "unset"
    /\ pc' = "wait_loop"

\* a mistaken range: one iteration too many
InRangeInclusive(k, m) == k <= m

\* a mistaken loop that never runs out: while True
InRangeForever(k, m) == TRUE

\* k in range(m), for the k >= 0 the loop counts through
InRange(k, m) == k < m

\* for i in range(max_wait): enter the body, or fall out of the loop and return False
wait_for_service_loop ==
    /\ pc = "wait_loop" /\ stack = <<>>
    /\ IF InRange(i, max_wait)
       THEN pc' = "wait_check" /\ waitRet' = waitRet
       ELSE pc' = "wait_ret" /\ waitRet' = "False"
    /\ UNCHANGED <<stack, cl, processes, alive, termSent, killSent, dockerStops,
                   dockerStarts, scriptExists, psOut, waiting, i, max_wait, polls,
                   stt_ok, tts_ok, llm_ok, midx, exitCode, exitCause, sigCount>>
    /\ NoCheck
    /\ UNCHANGED envVars

\* time.sleep(1), then the next i
wait_for_service_sleep ==
    /\ pc = "wait_sleep" /\ stack = <<>>
    /\ i' = i + 1
    /\ pc' = "wait_loop"
    /\ UNCHANGED <<stack, cl, processes, alive, termSent, killSent, dockerStops,
                   dockerStarts, scriptExists, psOut, waiting, max_wait, polls,
                   waitRet, stt_ok, tts_ok, llm_ok, midx, exitCode, exitCause,
                   sigCount>>
    /\ NoCheck
    /\ UNCHANGED envVars

---------------------------------------------------------------------------
(* What main does with the value check_service returned, by position.     *)
(* Sets every main variable except alive, termSent, killSent, dockerStops, *)
(* dockerStarts, scriptExists, psOut, processes, sigCount, exitCode,       *)
(* exitCause, lastOutcome and lastResult.                                  *)

\* a mistaken monitor that shuts down whatever the re-check says
MonitorEscalatesAlways(r) == TRUE

\* if not check_service(url): cleanup()
MonitorEscalates(r) == ~r

AfterCheck(r) ==
    CASE pc = "llm_check" ->
            /\ pc' = "stt_start"
            /\ stack' = <<>> /\ cl' = NoFrame
            /\ UNCHANGED <<waiting, i, max_wait, polls, waitRet, stt_ok, tts_ok,
                           llm_ok, midx>>
      [] pc = "wait_check" ->
            /\ polls' = Append(polls, r)
            /\ IF r THEN pc' = "wait_ret" /\ waitRet' = "True"
                    ELSE pc' = "wait_sleep" /\ waitRet' = waitRet
            /\ stack' = <<>> /\ cl' = NoFrame
            /\ UNCHANGED <<waiting, i, max_wait, stt_ok, tts_ok, llm_ok, midx>>
      [] pc = "llm_check2" ->
            /\ pc' = IF r THEN "llm_warm" ELSE "summary"
            /\ llm_ok' = TRUE
            /\ stack' = <<>> /\ cl' = NoFrame
            /\ UNCHANGED <<waiting, i, max_wait, polls, waitRet, stt_ok, tts_ok, midx>>
      [] pc = "mon_check" ->
            /\ IF MonitorEscalates(r)
               THEN pc' = "mon_call" /\ midx' = midx
                    /\ stack' = <<"monitor">> /\ cl' = NewFrame
               ELSE pc' = "mon_loop" /\ midx' = midx + 1
                    /\ stack' = <<>> /\ cl' = NoFrame
            /\ UNCHANGED <<waiting, i, max_wait, polls, waitRet, stt_ok, tts_ok, llm_ok>>

\* check_service(url) runs to its return: the GET has outcome o
check_service_call ==
    /\ pc \in CheckPcs /\ stack = <<>>
    /\ \E o \in Outcomes :
          /\ lastOutcome' = o
          /\ lastResult' = check_service(o)
          /\ AfterCheck(check_service(o))
    /\ UNCHANGED <<processes, alive, termSent, killSent, dockerStops, dockerStarts,
                   scriptExists, psOut, exitCode, exitCause, sigCount>>
    /\ UNCHANGED envVars

---------------------------------------------------------------------------
(* start_service and start_fatterbox *)

osVars == <<alive, termSent, killSent, dockerStops, dockerStarts>>
waitVars == <<waiting, i, max_wait, polls, waitRet>>

\* start_service up to the Popen: no script, no process, return None
start_service ==
    /\ pc = "stt_start" /\ stack = <<>>
    /\ IF ~scriptExists
       THEN pc' = "tts_start" /\ alive' = alive
       ELSE pc' = "stt_spawned" /\ alive' = [alive EXCEPT !["stt"] = "running"]
    /\ UNCHANGED <<stack, cl, processes, termSent, killSent, dockerStops, dockerStarts,
                   scriptExists, psOut, stt_ok, tts_ok, llm_ok, midx, exitCode,
                   exitCause, sigCount>>
    /\ NoCheck
    /\ UNCHANGED waitVars
    /\ UNCHANGED envVars

\* a mistaken append that lists the handle twice
AppendProcTwice(list, name, p) ==
    Append(Append(list, [name |-> name, proc |-> p]), [name |-> name, proc |-> p])

\* processes.append((name, proc))
AppendProc(list, name, p) == Append(list, [name |-> name, proc |-> p])

\* time.sleep(2) is over, start_service returns proc and main appends ("STT", proc)
main_append_stt ==
    /\ pc = "stt_spawned" /\ stack = <<>>
    /\ processes' = AppendProc(processes, STT_NAME, "stt")
    /\ pc' = "tts_start"
    /\ UNCHANGED <<stack, cl, scriptExists, psOut, stt_ok, tts_ok, llm_ok, midx,
                   exitCode, exitCause, sigCount>>
    /\ NoCheck
    /\ UNCHANGED osVars
    /\ UNCHANGED waitVars
    /\ UNCHANGED envVars

\* start_fatterbox up to the Popen: docker ps, then docker start (check=True)
start_fatterbox ==
    /\ pc = "tts_start" /\ stack = <<>>
    /\ IF ~Contains(FATTERBOX_CONTAINER, psOut)
       THEN /\ CallWait("STT", STT_MAX_WAIT)
            /\ dockerStarts' = dockerStarts
       ELSE /\ dockerStarts' = dockerStarts + 1
            /\ \E started \in (IF ContainerExists THEN BOOLEAN ELSE {FALSE}) :
                 IF started
                 THEN pc' = "tts_started" /\ UNCHANGED waitVars
                 ELSE CallWait("STT", STT_MAX_WAIT)
    /\ UNCHANGED <<stack, cl, processes, alive, termSent, killSent, dockerStops,
                   scriptExists, psOut, stt_ok, tts_ok, llm_ok, midx, exitCode,
                   exitCause, sigCount>>
    /\ NoCheck
    /\ UNCHANGED envVars

\* Popen(["docker", "logs", "-f", ...])
start_fatterbox_popen ==
    /\ pc = "tts_started" /\ stack = <<>>
    /\ alive' = [alive EXCEPT !["tts"] = "running"]
    /\ pc' = "tts_spawned"
    /\ UNCHANGED <<stack, cl, processes, termSent, killSent, dockerStops, dockerStarts,
                   scriptExists, psOut, stt_ok, tts_ok, llm_ok, midx, exitCode,
                   exitCause, sigCount>>
    /\ NoCheck
    /\ UNCHANGED waitVars
    /\ UNCHANGED envVars

\* start_fatterbox returns proc, main appends ("TTS (Log Stream)", proc) and
\* calls wait_for_service("STT", STT_HEALTH, max_wait=30)
main_append_tts ==
    /\ pc = "tts_spawned" /\ stack = <<>>
    /\ processes' = AppendProc(processes, TTS_NAME, "tts")
    /\ CallWait("STT", STT_MAX_WAIT)
    /\ UNCHANGED <<stack, cl, scriptExists, psOut, stt_ok, tts_ok, llm_ok, midx,
                   exitCode, exitCause, sigCount>>
    /\ NoCheck
    /\ UNCHANGED osVars
    /\ UNCHANGED envVars

---------------------------------------------------------------------------
(* main after the starts *)

\* stt_ok = wait_for_service(...); tts_ok = wait_for_service(...)
main_wait_assign ==
    /\ pc = "wait_ret" /\ stack = <<>>
    /\ IF waiting = "STT"
       THEN /\ stt_ok' = waitRet
            /\ tts_ok' = tts_ok
            /\ CallWait("TTS", TTS_MAX_WAIT)
       ELSE /\ tts_ok' = waitRet
            /\ stt_ok' = stt_ok
            /\ pc' = "llm_check2"
            /\ WaitIdle
    /\ UNCHANGED <<stack, cl, processes, scriptExists, psOut, llm_ok, midx, exitCode,
                   exitCause, sigCount>>
    /\ NoCheck
    /\ UNCHANGED osVars
    /\ UNCHANGED envVars

\* what the warm-up POST can do
WarmOutcomes == {"200", "status", "timeout", "error"}

\* the warm-up request: only a 200 leaves llm_ok true
main_llm_warm ==
    /\ pc = "llm_warm" /\ stack = <<>>
    /\ \E o \in WarmOutcomes : llm_ok' = (o = "200")
    /\ pc' = "summary"
    /\ UNCHANGED <<stack, cl, processes, scriptExists, psOut, stt_ok, tts_ok, midx,
                   exitCode, exitCause, sigCount>>
    /\ NoCheck
    /\ UNCHANGED osVars
    /\ UNCHANGED waitVars
    /\ UNCHANGED envVars

\* a mistaken summary that also demands a warmed LLM
ReadyWithLlm == stt_ok = "True" /\ tts_ok = "True" /\ llm_ok

\* if stt_ok and tts_ok
Ready == stt_ok = "True" /\ tts_ok = "True"

\* if stt_ok and tts_ok: monitor; else: cleanup() (and the sys.exit(1) after it)
main_summary ==
    /\ pc = "summary" /\ stack = <<>>
    /\ IF Ready
       THEN pc' = "mon_sleep" /\ UNCHANGED <<stack, cl>>
       ELSE pc' = "fail_call" /\ CallCleanup("fail")
    /\ UNCHANGED <<processes, scriptExists, psOut, stt_ok, tts_ok, llm_ok, midx,
                   exitCode, exitCause, sigCount>>
    /\ NoCheck
    /\ UNCHANGED osVars
    /\ UNCHANGED waitVars
    /\ UNCHANGED envVars

\* time.sleep(1), then the for loop over processes starts again
monitor_sleep ==
    /\ pc = "mon_sleep" /\ stack = <<>>
    /\ midx' = 1
    /\ pc' = "mon_loop"
    /\ UNCHANGED <<stack, cl, processes, scriptExists, psOut, stt_ok, tts_ok, llm_ok,
                   exitCode, exitCause, sigCount>>
    /\ NoCheck
    /\ UNCHANGED osVars
    /\ UNCHANGED waitVars
    /\ UNCHANGED envVars

\* a mistaken poll that reports every child as exited
PolledStale(p) == TRUE

\* a mistaken poll that reports every spawned child as still running
PolledNever(p) == FALSE

\* proc.poll() is not None (the handle reports exit)
Polled(p) == alive[p] # "running"

\* one entry of processes: an exited one is re-checked, a live one is passed over
monitor_loop ==
    /\ pc = "mon_loop" /\ stack = <<>>
    /\ IF midx > Len(processes)
       THEN pc' = "mon_sleep" /\ midx' = midx
       ELSE IF Polled(processes[midx].proc)
            THEN pc' = "mon_check" /\ midx' = midx
            ELSE pc' = "mon_loop" /\ midx' = midx + 1
    /\ UNCHANGED <<stack, cl, processes, scriptExists, psOut, stt_ok, tts_ok, llm_ok,
                   exitCode, exitCause, sigCount>>
    /\ NoCheck
    /\ UNCHANGED osVars
    /\ UNCHANGED waitVars
    /\ UNCHANGED envVars

---------------------------------------------------------------------------
(* cleanup: the innermost frame runs; main and outer frames are suspended *)

\* subprocess.run(["docker", "stop", FATTERBOX_CONTAINER]), exit status ignored
cleanup_docker_stop ==
    /\ stack # <<>> /\ cl.phase = "stop"
    /\ dockerStops' = dockerStops + 1
    /\ cl' = [phase |-> "loop", idx |-> 1]
    /\ UNCHANGED <<pc, stack, processes, alive, termSent, killSent, dockerStarts,
                   scriptExists, psOut, stt_ok, tts_ok, llm_ok, midx, exitCode,
                   exitCause, sigCount>>
    /\ NoCheck
    /\ UNCHANGED waitVars
    /\ UNCHANGED envVars

\* for name, proc in processes: if proc.poll() is None: proc.terminate()
cleanup_terminate ==
    /\ stack # <<>> /\ cl.phase = "loop" /\ cl.idx <= Len(processes)
    /\ LET p == processes[cl.idx].proc
       IN  IF ~Polled(p)
           THEN /\ termSent' = [termSent EXCEPT ![p] = @ + 1]
                /\ cl' = [phase |-> "wait", idx |-> cl.idx]
           ELSE /\ termSent' = termSent
                /\ cl' = [phase |-> "loop", idx |-> cl.idx + 1]
    /\ UNCHANGED <<pc, stack, processes, alive, killSent, dockerStops, dockerStarts,
                   scriptExists, psOut, stt_ok, tts_ok, llm_ok, midx, exitCode,
                   exitCause, sigCount>>
    /\ NoCheck
    /\ UNCHANGED waitVars
    /\ UNCHANGED envVars

\* proc.wait(timeout=5) returns: the child exited in time
cleanup_wait_done ==
    /\ stack # <<>> /\ cl.phase = "wait"
    /\ Polled(processes[cl.idx].proc)
    /\ cl' = [phase |-> "loop", idx |-> cl.idx + 1]
    /\ UNCHANGED <<pc, stack, processes, scriptExists, psOut, stt_ok, tts_ok, llm_ok,
                   midx, exitCode, exitCause, sigCount>>
    /\ NoCheck
    /\ UNCHANGED osVars
    /\ UNCHANGED waitVars
    /\ UNCHANGED envVars

\* proc.wait(timeout=5) raises TimeoutExpired: proc.kill()
cleanup_wait_timeout ==
    /\ stack # <<>> /\ cl.phase = "wait"
    /\ ~Polled(processes[cl.idx].proc)
    /\ killSent' = [killSent EXCEPT ![processes[cl.idx].proc] = @ + 1]
    /\ cl' = [phase |-> "loop", idx |-> cl.idx + 1]
    /\ UNCHANGED <<pc, stack, processes, alive, termSent, dockerStops, dockerStarts,
                   scriptExists, psOut, stt_ok, tts_ok, llm_ok, midx, exitCode,
                   exitCause, sigCount>>
    /\ NoCheck
    /\ UNCHANGED waitVars
    /\ UNCHANGED envVars

\* the exit status cleanup passes to sys.exit
CleanupExitCode == 0

\* sys.exit(0) at the end of cleanup, with no check_service frame below:
\* SystemExit reaches the top level and the process ends
cleanup_sys_exit ==
    /\ stack # <<>> /\ cl.phase = "loop" /\ cl.idx > Len(processes)
    /\ pc \notin CheckPcs
    /\ ProcessExit(CleanupExitCode, stack)
    /\ UNCHANGED <<processes, scriptExists, psOut, stt_ok, tts_ok, llm_ok, midx,
                   sigCount>>
    /\ NoCheck
    /\ UNCHANGED osVars
    /\ UNCHANGED waitVars
    /\ UNCHANGED envVars

\* sys.exit(0) at the end of a cleanup that interrupted check_service:
\* the bare except catches SystemExit and check_service returns False
check_service_except ==
    /\ stack # <<>> /\ cl.phase = "loop" /\ cl.idx > Len(processes)
    /\ pc \in CheckPcs
    /\ lastOutcome' = Interrupted
    /\ lastResult' = check_service(Interrupted)
    /\ AfterCheck(check_service(Interrupted))
    /\ UNCHANGED <<processes, scriptExists, psOut, exitCode, exitCause, sigCount>>
    /\ UNCHANGED osVars
    /\ UNCHANGED envVars

---------------------------------------------------------------------------
(* The environment of the supervisor *)

\* SIGINT or SIGTERM is delivered: the handler cleanup(signum, frame) starts
Signal ==
    /\ pc \notin {"import", "exited"}
    /\ sigCount < MaxSignals
    /\ sigCount' = sigCount + 1
    /\ CallCleanup("signal")
    /\ UNCHANGED <<pc, processes, scriptExists, psOut, stt_ok, tts_ok, llm_ok, midx,
                   exitCode, exitCause>>
    /\ NoCheck
    /\ UNCHANGED osVars
    /\ UNCHANGED waitVars
    /\ UNCHANGED envVars

\* a child ends: it forked a daemon and returned, it crashed, or it obeyed a signal
ChildExits ==
    /\ pc \notin {"import", "exited"}
    /\ \E p \in Procs :
          /\ alive[p] = "running"
          /\ alive' = [alive EXCEPT ![p] = "exited"]
    /\ UNCHANGED <<pc, stack, cl, processes, termSent, killSent, dockerStops,
                   dockerStarts, scriptExists, psOut, stt_ok, tts_ok, llm_ok, midx,
                   exitCode, exitCause, sigCount>>
    /\ NoCheck
    /\ UNCHANGED waitVars
    /\ UNCHANGED envVars

---------------------------------------------------------------------------
(* The module-level environment loader *)

\* a mistaken loader that assigns os.environ[k] = v
setalways(e, k, v) ==
    [x \in DOMAIN e \cup {k} |-> IF x = k THEN v ELSE e[x]]

\* os.environ.setdefault(k, v)
setdefault(e, k, v) ==
    IF k \in DOMAIN e THEN e ELSE [x \in DOMAIN e \cup {k} |-> IF x = k THEN v ELSE e[x]]

\* if line and not line.startswith('#') and '=' in line  (line already stripped)
IsAssignment(line) ==
    line # <<>> /\ ~StartsWith(line, <<"#">>) /\ Contains(<<"=">>, line)

\* if ENV_FILE.exists(): open it
env_open ==
    /\ envPc = "start"
    /\ envPc' = IF fileExists THEN "loop" ELSE "done"
    /\ UNCHANGED <<fileExists, file, lineNo, environ, environ0>>
    /\ UNCHANGED mainVars

\* one line of the file; the C library refuses an empty variable name
\* (os.environ.__setitem__ raises OSError and the import fails)
env_line ==
    /\ envPc = "loop" /\ lineNo <= Len(file)
    /\ LET line == Strip(file[lineNo])
           kv == SplitFirst(line)
           key == Strip(kv.key)
           value == Strip(kv.value)
       IN  IF IsAssignment(line)
           THEN IF key = <<>> /\ key \notin DOMAIN environ
                THEN envPc' = "crashed" /\ environ' = environ
                ELSE envPc' = envPc /\ environ' = setdefault(environ, key, value)
           ELSE envPc' = envPc /\ environ' = environ
    /\ lineNo' = lineNo + 1
    /\ UNCHANGED <<fileExists, file, environ0>>
    /\ UNCHANGED mainVars

\* the file is exhausted
env_eof ==
    /\ envPc = "loop" /\ lineNo > Len(file)
    /\ envPc' = "done"
    /\ UNCHANGED <<fileExists, file, lineNo, environ, environ0>>
    /\ UNCHANGED mainVars

\* lines an environment file is made of
Lines ==
    { <<>>,
      <<"\n">>,
      <<" ", "\n">>,
      <<"#", "A", "=", "1", "\n">>,
      <<" ", "#", "A", "=", "1", "\n">>,
      <<"A", "\n">>,
      <<"A", "=", "1", "\n">>,
      <<"A", "=", "2">>,
      <<" ", "A", " ", "=", " ", "3", " ", "\n">>,
      <<"B", "=", "1", "=", "2", "\n">>,
      <<"B", "=", "\n">>,
      <<"=", "1", "\n">> }

\* files of at most MaxLines lines
Files == UNION { [1..n -> Lines] : n \in 0..MaxLines }

\* environments the process can be started with
Environs ==
    { <<>>,
      (<<"A">> :> <<"9">>),
      (<<"B">> :> <<"9">>) @@ (<<"P", "A", "T", "H">> :> <<"/", "b", "i", "n">>) }

---------------------------------------------------------------------------
(* Specifications *)

\* the state of main before it runs
MainIdle(at) ==
    /\ pc = at
    /\ stack = <<>>
    /\ cl = NoFrame
    /\ processes = <<>>
    /\ alive = [p \in Procs |-> "none"]
    /\ termSent = [p \in Procs |-> 0]
    /\ killSent = [p \in Procs |-> 0]
    /\ dockerStops = 0
    /\ dockerStarts = 0
    /\ i = 0
    /\ polls = <<>>
    /\ waitRet = "unset"
    /\ stt_ok = "unset"
    /\ tts_ok = "unset"
    /\ llm_ok = TRUE
    /\ midx = 0
    /\ exitCode = -1
    /\ exitCause = <<>>
    /\ sigCount = 0
    /\ lastOutcome = NoOutcome
    /\ lastResult = FALSE

\* the state of the loader once the import is over
EnvLoaded ==
    /\ envPc = "done"
    /\ fileExists = FALSE
    /\ file = <<>>
    /\ lineNo = 1
    /\ environ = <<>>
    /\ environ0 = <<>>

\* main() is entered: the handlers are registered, nothing is started
Init ==
    /\ MainIdle("llm_check")
    /\ waiting = "STT"
    /\ max_wait = 0
    /\ scriptExists \in BOOLEAN
    /\ psOut \in PsOutputs
    /\ EnvLoaded

Next ==
    \/ check_service_call
    \/ check_service_except
    \/ start_service
    \/ main_append_stt
    \/ start_fatterbox
    \/ start_fatterbox_popen
    \/ main_append_tts
    \/ wait_for_service_loop
    \/ wait_for_service_sleep
    \/ main_wait_assign
    \/ main_llm_warm
    \/ main_summary
    \/ monitor_sleep
    \/ monitor_loop
    \/ cleanup_docker_stop
    \/ cleanup_terminate
    \/ cleanup_wait_done
    \/ cleanup_wait_timeout
    \/ cleanup_sys_exit
    \/ Signal
    \/ ChildExits

Spec == Init /\ [][Next]_vars

\* wait_for_service called on its own with any small max_wait
InitWait ==
    /\ MainIdle("wait_loop")
    /\ waiting \in {"STT", "TTS"}
    /\ max_wait \in -1..MaxWaitArg
    /\ scriptExists = FALSE
    /\ psOut = <<>>
    /\ EnvLoaded

NextWait ==
    \/ wait_for_service_loop
    \/ wait_for_service_sleep
    \/ check_service_call

SpecWait == InitWait /\ [][NextWait]_vars

\* the import of the module: the loader runs over a file
InitEnv ==
    /\ MainIdle("import")
    /\ waiting = "STT"
    /\ max_wait = 0
    /\ scriptExists = FALSE
    /\ psOut = <<>>
    /\ envPc = "start"
    /\ fileExists \in BOOLEAN
    /\ file \in (IF fileExists THEN Files ELSE {<<>>})
    /\ lineNo = 1
    /\ environ0 \in Environs
    /\ environ = environ0

NextEnv ==
    \/ env_open
    \/ env_line
    \/ env_eof

SpecEnv == InitEnv /\ [][NextEnv]_vars

\* the supervisor when no SIGINT or SIGTERM is ever delivered
NextQuiet ==
    \/ check_service_call
    \/ start_service
    \/ main_append_stt
    \/ start_fatterbox
    \/ start_fatterbox_popen
    \/ main_append_tts
    \/ wait_for_service_loop
    \/ wait_for_service_sleep
    \/ main_wait_assign
    \/ main_llm_warm
    \/ main_summary
    \/ monitor_sleep
    \/ monitor_loop
    \/ cleanup_docker_stop
    \/ cleanup_terminate
    \/ cleanup_wait_done
    \/ cleanup_wait_timeout
    \/ cleanup_sys_exit
    \/ ChildExits

\* the steps of the one Python thread; every blocking call in them is
\* bounded (requests timeout=2, time.sleep, proc.wait(timeout=5)) or a
\* docker command that returns, so a step that can be taken is taken
SupervisorStep ==
    \/ check_service_call
    \/ start_service
    \/ main_append_stt
    \/ start_fatterbox
    \/ start_fatterbox_popen
    \/ main_append_tts
    \/ wait_for_service_loop
    \/ wait_for_service_sleep
    \/ main_wait_assign
    \/ main_llm_warm
    \/ main_summary
    \/ monitor_sleep
    \/ monitor_loop
    \/ cleanup_docker_stop
    \/ cleanup_terminate
    \/ cleanup_wait_done
    \/ cleanup_wait_timeout
    \/ cleanup_sys_exit

SpecQuiet == Init /\ [][NextQuiet]_vars /\ WF_vars(SupervisorStep)

---------------------------------------------------------------------------
(* Properties *)

\* the children that run and were never sent SIGTERM
Orphans == { p \in Procs : alive[p] = "running" /\ termSent[p] = 0 }

\* the supervisor is in the monitor loop
MonitorPcs == {"mon_sleep", "mon_loop", "mon_check", "mon_call"}

\* the GET of the last step was answered with a status below 500
Healthy(o) == o.kind = "response" /\ o.status \in {200, 404, 499}

\* C1: when a readiness wait returned false and main took the failure path
\* (its cleanup() call is the outermost frame), cleanup has run and the
\* process exits with status 1.
C1_FailurePathExitsOne ==
    (pc = "exited" /\ exitCause # <<>> /\ exitCause[1] = "fail")
        => (dockerStops >= 1 /\ exitCode = 1)

\* C2: when the supervisor exits, no child it spawned is running without
\* having been sent a terminate signal, and docker stop was issued.
C2_NoOrphanAtExit ==
    pc = "exited" => (Orphans = {} /\ dockerStops >= 1)

\* C3: when the monitor loop found a managed process exited and its endpoint
\* unhealthy (its cleanup() call is the outermost frame), the process exits
\* with status 1 after cleanup.
C3_UnhealthyExitExitsOne ==
    (pc = "exited" /\ exitCause # <<>> /\ exitCause[1] = "monitor")
        => (dockerStops >= 1 /\ exitCode = 1)

\* positions main can be at once both readiness waits have returned true
ReadyPcs == {"llm_check2", "llm_warm", "summary", "exited"} \cup MonitorPcs

\* C4: once both readiness waits succeeded the supervisor only warms the LLM
\* and monitors, never takes the failure path, and, unless the monitor found
\* an exited process with an unhealthy endpoint, it exits only through the
\* signal handler: then docker stop was issued, every managed process still
\* alive was sent terminate, and the exit status is 0.
C4_ReadyExitsOnlyOnSignal ==
    (stt_ok = "True" /\ tts_ok = "True") =>
        /\ pc \in ReadyPcs
        /\ \A k \in 1..Len(stack) : stack[k] # "fail"
        /\ (pc = "exited" /\ exitCause[1] # "monitor") =>
              /\ exitCause[1] = "signal"
              /\ exitCode = 0
              /\ dockerStops >= 1
              /\ \A k \in 1..Len(processes) :
                    alive[processes[k].proc] = "running"
                        => termSent[processes[k].proc] >= 1

\* both services came up, the monitor loop was entered, both children were
\* still alive when the signal arrived, and cleanup terminated both before
\* the exit
C4_Witness ==
    /\ pc = "exited"
    /\ midx >= 1
    /\ stt_ok = "True" /\ tts_ok = "True"
    /\ exitCause = <<"signal">>
    /\ Len(processes) = 2
    /\ \A p \in Procs : termSent[p] = 1

\* C5: when the STT launch script or the TTS container does not exist, that
\* service has no process and no handle, the monitor loop is never entered,
\* and at exit no process started for the other service is left running
\* without a terminate.
C5_MissingServiceFailsStartup ==
    /\ ~scriptExists =>
          /\ alive["stt"] = "none"
          /\ \A k \in 1..Len(processes) : processes[k].proc # "stt"
    /\ ~ContainerExists =>
          /\ alive["tts"] = "none"
          /\ \A k \in 1..Len(processes) : processes[k].proc # "tts"
    /\ (~scriptExists \/ ~ContainerExists) =>
          /\ pc \notin MonitorPcs
          /\ pc = "exited" => Orphans = {}

\* C6: cleanup sends a managed process at most one terminate and at most one
\* kill, however often and however nested cleanup is invoked.
C6_CleanupSignalsOnce ==
    \A p \in Procs : termSent[p] <= 1 /\ killSent[p] <= 1

\* C7: in the monitor loop a re-check that finds the endpoint of an exited
\* process healthy leaves the supervisor monitoring, and the monitor loop
\* calls cleanup only from the re-check of a process whose handle reports
\* exit, when that re-check did not succeed.
C7_MonitorEscalation ==
    [][ /\ (pc = "mon_check" /\ stack = <<>> /\ Healthy(lastOutcome'))
            => (pc' = "mon_loop" /\ midx' = midx + 1 /\ stack' = <<>>)
        /\ ((stack = <<>> \/ stack[1] # "monitor")
              /\ stack' # <<>> /\ stack'[1] = "monitor")
            => /\ pc = "mon_check"
               /\ midx \in 1..Len(processes)
               /\ alive[processes[midx].proc] = "exited"
               /\ lastOutcome' # NoOutcome
               /\ ~Healthy(lastOutcome')
               /\ lastResult' = FALSE ]_vars

\* the log follower has exited, its endpoint answered, monitoring went on to
\* the next entry
C7_Witness ==
    /\ pc = "mon_loop" /\ stack = <<>>
    /\ midx = 3
    /\ alive["tts"] = "exited"
    /\ Healthy(lastOutcome)

\* the number of polls a call with argument m may make
PollBudget(m) == IF m > 0 THEN m ELSE 0

\* C8: wait_for_service never polls more than max_wait times, makes no poll
\* after a successful one, returns true right after the first successful
\* poll, returns false exactly when all max_wait polls failed, and with
\* max_wait = 0 returns false without polling.
C8_WaitForService ==
    /\ Len(polls) <= PollBudget(max_wait)
    /\ \A k \in 1..(Len(polls) - 1) : polls[k] = FALSE
    /\ (polls # <<>> /\ polls[Len(polls)]) => (pc = "wait_ret" /\ waitRet = "True")
    /\ pc = "wait_ret" =>
          /\ waitRet \in {"True", "False"}
          /\ waitRet = "True" <=> (polls # <<>> /\ polls[Len(polls)])
          /\ waitRet = "False" <=>
                (Len(polls) = PollBudget(max_wait) /\ \A k \in 1..Len(polls) : ~polls[k])
          /\ max_wait = 0 => (polls = <<>> /\ waitRet = "False")
    /\ pc # "wait_ret" => waitRet = "unset"

\* a call that returned true on its third poll
C8_Witness ==
    /\ pc = "wait_ret" /\ waitRet = "True"
    /\ polls = <<FALSE, FALSE, TRUE>>

\* a call with max_wait = 0 that returned false without a poll
C8_WitnessZero ==
    pc = "wait_ret" /\ max_wait = 0 /\ waitRet = "False" /\ polls = <<>>

\* C9: check_service returns true exactly when the GET was answered with a
\* status below 500, false for 500 and above and for every failure of the
\* request, and it always returns to its caller.
C9_CheckService ==
    lastOutcome # NoOutcome =>
        /\ lastResult <=> (lastOutcome.kind = "response" /\ lastOutcome.status < 500)
        /\ lastOutcome.kind # "response" => ~lastResult
        /\ pc \in {"stt_start", "wait_ret", "wait_sleep", "llm_warm", "summary",
                   "mon_loop", "mon_call"}

\* a 500 answer was just reported as unhealthy
C9_Witness ==
    lastOutcome = [kind |-> "response", status |-> 500] /\ ~lastResult

\* the line holds nothing but white space
Blank(l) == \A k \in 1..Len(l) : IsSpace(l[k])

\* the first character of the line that is not white space is '#'
Comment(l) ==
    \E k \in 1..Len(l) : l[k] = "#" /\ \A j \in 1..(k - 1) : IsSpace(l[j])

\* position of the first '=' of a line that holds one
EqAt(l) == CHOOSE k \in 1..Len(l) : l[k] = "=" /\ \A j \in 1..(k - 1) : l[j] # "="

\* the line defines a variable
Defining(l) == ~Blank(l) /\ ~Comment(l) /\ \E k \in 1..Len(l) : l[k] = "="

KeyOf(l) == Strip(SubSeq(l, 1, EqAt(l) - 1))
ValueOf(l) == Strip(SubSeq(l, EqAt(l) + 1, Len(l)))

\* the variables the file defines
DefinedKeys == { KeyOf(file[n]) : n \in { m \in 1..Len(file) : Defining(file[m]) } }

\* the first line of the file that defines k
FirstDef(k) ==
    CHOOSE n \in 1..Len(file) :
        /\ Defining(file[n]) /\ KeyOf(file[n]) = k
        /\ \A m \in 1..(n - 1) : ~(Defining(file[m]) /\ KeyOf(file[m]) = k)

\* C10: the loader never changes a variable that was already set; once it has
\* run over an existing file the environment holds, besides the old
\* variables, exactly the keys defined by non-blank, non-comment lines with
\* an '=', each with the value of the first line defining it; an absent file
\* leaves the environment as it was and raises nothing.
C10_EnvLoader ==
    /\ \A k \in DOMAIN environ0 : k \in DOMAIN environ /\ environ[k] = environ0[k]
    /\ DOMAIN environ \subseteq (DOMAIN environ0 \cup DefinedKeys)
    /\ (envPc = "done" /\ fileExists) =>
          /\ DOMAIN environ = DOMAIN environ0 \cup DefinedKeys
          /\ \A k \in DefinedKeys \ DOMAIN environ0 :
                environ[k] = ValueOf(file[FirstDef(k)])
    /\ ~fileExists => (environ = environ0 /\ envPc \in {"start", "done"})

\* a file that redefines the preset A and defines B: A kept its value and B
\* took the text after the first '='
C10_Witness ==
    /\ envPc = "done" /\ fileExists
    /\ file = << <<"A", "=", "1", "\n">>, <<"B", "=", "1", "=", "2", "\n">> >>
    /\ environ0 = (<<"A">> :> <<"9">>)
    /\ environ = (<<"A">> :> <<"9">>) @@ (<<"B">> :> <<"1", "=", "2">>)

\* C11: once a cleanup frame is active (STOPPING), the supervisor never goes
\* back to main: every step keeps a cleanup frame active or ends the process.
C11_StoppingIsFinal ==
    [][stack # <<>> => (stack' # <<>> \/ pc' = "exited")]_vars

\* C12: a managed process whose handle reports exit is sent no signal; a live
\* one reached by the cleanup loop is sent terminate and then waited for; kill
\* is sent only from that wait, to a process still alive that was already
\* sent terminate.
C12_TerminateThenKill ==
    [][ /\ \A p \in Procs :
              /\ (termSent'[p] # termSent[p] \/ killSent'[p] # killSent[p])
                    => alive[p] = "running"
              /\ killSent'[p] # killSent[p] =>
                    /\ termSent[p] >= 1
                    /\ cl.phase = "wait" /\ processes[cl.idx].proc = p
                    /\ termSent'[p] = termSent[p]
              /\ termSent'[p] # termSent[p] =>
                    /\ termSent'[p] = termSent[p] + 1
                    /\ cl.phase = "loop" /\ processes[cl.idx].proc = p
                    /\ cl' = [phase |-> "wait", idx |-> cl.idx]
        /\ (cl.phase = "loop" /\ cl.idx <= Len(processes) /\ cl' # cl /\ stack' = stack)
              => LET p == processes[cl.idx].proc
                 IN  IF alive[p] = "running"
                     THEN termSent'[p] = termSent[p] + 1
                     ELSE termSent' = termSent /\ killSent' = killSent ]_vars

\* cleanup met one child already exited and one that ignored the terminate:
\* the first got no signal, the second a terminate and then a kill
C12_Witness ==
    /\ pc = "exited"
    /\ alive["stt"] = "exited" /\ termSent["stt"] = 0 /\ killSent["stt"] = 0
    /\ termSent["tts"] = 1 /\ killSent["tts"] = 1

\* C13: a cleanup frame sends terminate or kill only after it has issued
\* docker stop, its first step is docker stop, and it issues it also when no
\* docker start was ever issued.
C13_DockerStopFirst ==
    [][ /\ (termSent' # termSent \/ killSent' # killSent)
              => (cl.phase \in {"loop", "wait"} /\ dockerStops >= 1)
        /\ (stack # <<>> /\ cl.phase = "stop" /\ cl' # cl /\ stack' = stack)
              => (dockerStops' = dockerStops + 1 /\ cl'.phase = "loop")
        /\ (Len(stack') > Len(stack)) => cl'.phase = "stop" ]_vars

\* the container was never started (start_fatterbox returned None), yet the
\* cleanup issued docker stop and then terminated the STT process
C13_Witness ==
    /\ pc = "fail_call" /\ psOut = <<>>
    /\ dockerStarts = 0 /\ alive["tts"] = "none"
    /\ dockerStops = 1
    /\ termSent["stt"] = 1

\* C14: the monitor loop is entered only from the summary and exactly when
\* stt_ok and tts_ok are both true, otherwise the failure path is taken;
\* neither llm_ok nor the LLM presence check enters the decision, and the
\* exit status is the one cleanup passes to sys.exit whatever the LLM did.
C14_MonitorIffBothReady ==
    [][ /\ (pc' \in MonitorPcs /\ pc \notin MonitorPcs) => pc = "summary"
        /\ pc' \in MonitorPcs => (stt_ok' = "True" /\ tts_ok' = "True")
        /\ (pc = "summary" /\ stack = <<>> /\ pc' # "summary") =>
              IF stt_ok = "True" /\ tts_ok = "True"
              THEN pc' = "mon_sleep" /\ stack' = <<>>
              ELSE pc' = "fail_call" /\ stack' = <<"fail">>
        /\ pc' = "exited" => exitCode' = CleanupExitCode ]_vars

\* both services are ready, the warm-up request failed, and the supervisor
\* monitors
C14_Witness ==
    pc = "mon_sleep" /\ stt_ok = "True" /\ tts_ok = "True" /\ ~llm_ok

\* positions inside wait_for_service
WaitPcs == {"wait_loop", "wait_check", "wait_sleep", "wait_ret"}

\* the start attempt for p is over: a spawned child is in processes
Started(p) ==
    (alive[p] # "none") <=> (\E k \in 1..Len(processes) : processes[k].proc = p)

\* C15: start_fatterbox begins only when start_service is over; the readiness
\* polls begin only when both start attempts are over; the TTS wait begins
\* only when the STT wait has returned, and it begins whatever the STT wait
\* returned; the LLM warm-up is issued only when both waits have returned.
C15_StartupSequence ==
    [][ /\ (pc' = "tts_start" /\ pc # "tts_start")
              => (pc \in {"stt_start", "stt_spawned"} /\ Started("stt")')
        /\ pc' \in {"tts_start", "tts_started", "tts_spawned"}
              => (stt_ok' = "unset" /\ tts_ok' = "unset" /\ polls' = <<>>)
        /\ pc' \in WaitPcs =>
              /\ Started("stt")' /\ Started("tts")'
              /\ waiting' = "STT" => (stt_ok' = "unset" /\ tts_ok' = "unset")
              /\ waiting' = "TTS" => (stt_ok' \in {"True", "False"} /\ tts_ok' = "unset")
        /\ (pc = "wait_ret" /\ waiting = "STT" /\ stack = <<>> /\ pc' # pc)
              => /\ pc' = "wait_loop" /\ waiting' = "TTS" /\ polls' = <<>>
                 /\ stt_ok' = waitRet
                 /\ max_wait' = TTS_MAX_WAIT
        /\ pc' \in {"llm_check2", "llm_warm", "summary"}
              => (stt_ok' \in {"True", "False"} /\ tts_ok' \in {"True", "False"}) ]_vars

\* the STT wait ran out and the TTS endpoint is being polled all the same
C15_Witness ==
    /\ pc = "wait_check" /\ waiting = "TTS"
    /\ stt_ok = "False"
    /\ Len(processes) = 2

\* C16: docker start is issued only when the listing holds the container
\* name; when the container is absent no start command is issued, no
\* log-follow process is spawned and no handle is returned; a failed start
\* spawns and returns nothing; a log-follow process exists only after a
\* successful start.
C16_StartFatterbox ==
    /\ dockerStarts >= 1 => Contains(FATTERBOX_CONTAINER, psOut)
    /\ ~ContainerExists =>
          /\ dockerStarts = 0
          /\ alive["tts"] = "none"
          /\ \A k \in 1..Len(processes) : processes[k].proc # "tts"
    /\ alive["tts"] # "none" => (dockerStarts = 1 /\ ContainerExists)
    /\ (\E k \in 1..Len(processes) : processes[k].proc = "tts") => alive["tts"] # "none"

\* C17: with no signal delivered, each wait makes at most 30 polls (30 for
\* STT, 30 for TTS) and the startup always ends: the supervisor reaches the
\* monitor loop, or cleanup has run and the process has exited.
C17_StartupTerminates ==
    /\ [](/\ sigCount = 0
          /\ waiting = "STT" => Len(polls) <= STT_MAX_WAIT
          /\ waiting = "TTS" => Len(polls) <= TTS_MAX_WAIT)
    /\ <>(pc \in MonitorPcs \/ (pc = "exited" /\ dockerStops >= 1))

\* both waits ran out of polls, the failure path ran cleanup and the process
\* exited, all without a signal
C17_Witness ==
    /\ pc = "exited" /\ exitCause = <<"fail">>
    /\ stt_ok = "False" /\ tts_ok = "False"
    /\ sigCount = 0
    /\ dockerStops = 1

\* the entries of a list of managed processes that hold the child p
EntriesOf(list, p) == {k \in 1..Len(list) : list[k].proc = p}

\* C18: processes changes only by one append during startup, right after a
\* start function returned a handle; it holds at most one STT and one TTS
\* entry, every entry holds a spawned child, the monitor loop and cleanup
\* leave it alone; so every monitor iteration starts again at the first
\* entry and re-checks every entry whose process has exited.
C18_ProcessList ==
    [][ /\ processes' # processes =>
              /\ pc \in {"stt_spawned", "tts_spawned"} /\ stack = <<>>
              /\ Len(processes') = Len(processes) + 1
              /\ SubSeq(processes', 1, Len(processes)) = processes
              /\ processes'[Len(processes')] =
                    (IF pc = "stt_spawned" THEN [name |-> STT_NAME, proc |-> "stt"]
                                           ELSE [name |-> TTS_NAME, proc |-> "tts"])
        /\ \A p \in Procs :
              /\ Cardinality(EntriesOf(processes', p)) <= 1
              /\ EntriesOf(processes', p) # {} => alive'[p] # "none"
        /\ (pc \in MonitorPcs \/ stack # <<>> \/ pc = "exited") => processes' = processes
        /\ (pc = "mon_sleep" /\ stack = <<>> /\ pc' # pc) => (pc' = "mon_loop" /\ midx' = 1)
        /\ (pc = "mon_loop" /\ stack = <<>> /\ midx <= Len(processes) /\ (pc' # pc \/ midx' # midx))
              => IF alive[processes[midx].proc] = "exited"
                 THEN pc' = "mon_check" /\ midx' = midx
                 ELSE pc' = "mon_loop" /\ midx' = midx + 1 ]_vars

\* both children have exited, both are still listed, and the monitor is
\* re-checking the second one
C18_Witness ==
    /\ pc = "mon_check" /\ midx = 2
    /\ Len(processes) = 2
    /\ alive["stt"] = "exited" /\ alive["tts"] = "exited"
    /\ sigCount = 0

\* C19: when the monitor loop re-checks an exited entry, the URL it polls is
\* the health URL of the service the entry's process belongs to: STT_HEALTH
\* for the entry named "STT", TTS_HEALTH for the entry named "TTS (Log Stream)".
C19_MonitorUrl ==
    pc = "mon_check" =>
        LET e == processes[midx] IN
            /\ alive[e.proc] = "exited"
            /\ e.proc = "stt" => (e.name = STT_NAME /\ CheckUrl = STT_HEALTH)
            /\ e.proc = "tts" => (e.name = TTS_NAME /\ CheckUrl = TTS_HEALTH)
            /\ STT_HEALTH # TTS_HEALTH

\* the log-follow process has exited and the monitor polls the TTS endpoint
C19_Witness ==
    /\ pc = "mon_check" /\ stack = <<>>
    /\ processes[midx].name = TTS_NAME
    /\ alive["tts"] = "exited"
    /\ CheckUrl = TTS_HEALTH

=============================================================================
